---------------------------- MODULE Spec2Model ----------------------------
(***************************************************************************)
(* rxRust, src/observable/from_future.rs: the bridge from a Future to an   *)
(* observable.  from_future / from_future_result wrap a future in an       *)
(* emitter; emit() maps the future with a continuation that pushes the     *)
(* output into the subscriber and spawns the mapped future on the          *)
(* process-wide DEFAULT_RUNTIME thread pool (a lazy_static Mutex).         *)
(*                                                                         *)
(* Every emit call runs on its own subscribing thread, the pool's workers  *)
(* are separate threads, and all of them interleave step by step.          *)
(***************************************************************************)
EXTENDS Naturals, Sequences, FiniteSets

\* Bounds of the model.
NumBridges == 2
NumWorkers == 2

Bridges == 1..NumBridges
Workers == 1..NumWorkers

NoBridge == 0

(***************************************************************************)
(* Rust values.  A future's output is a plain value, or a Result::Ok or    *)
(* Result::Err wrapping one.                                               *)
(***************************************************************************)
Plain(n) == [shape |-> "Plain", n |-> n]
Ok(n) == [shape |-> "Ok", n |-> n]
Err(n) == [shape |-> "Err", n |-> n]
Unit == [shape |-> "Unit", n |-> 0]

\* The code never looks inside a value, so bridge b's future carries the value b:
\* the values of different bridges differ, and only the output's shape varies.
\* F::Output of from_future: any Item, a Result included.
ValueOutputs(b) == {Plain(b), Ok(b), Err(b)}
\* F::Output of from_future_result: Into<Result<Item, Err>>.
ResultOutputs(b) == {Ok(b), Err(b)}

\* Observer notifications.
Next_(v) == [kind |-> "next", val |-> v]
Error_(e) == [kind |-> "error", val |-> e]
Complete_ == [kind |-> "complete", val |-> Unit]

VARIABLES
  kind,      \* kind[b]: which emitter bridge b is, FutureEmitter or FutureResultEmitter
  output,    \* output[b]: the value the wrapped future resolves to
  fut,       \* fut[b]: "ready" when a poll of the future returns Ready, else "pending"
  pc,        \* pc[b]: where the subscribing thread is inside emit
  panicked,  \* panicked[b]: which unwrap() aborted the emit, or "no"
  once,      \* the lazy_static cell of DEFAULT_RUNTIME
  mutex,     \* the Mutex around the ThreadPool: its holder and its poison flag
  task,      \* task[b]: the spawned fmapped future inside the pool
  worker,    \* worker[w]: what pool thread w is running
  hist       \* hist[b]: every notification the subscriber of b has received, in order

vars == <<kind, output, fut, pc, panicked, once, mutex, task, worker, hist>>

Idle == [b |-> NoBridge, st |-> "idle", plan |-> <<>>]

(***************************************************************************)
(* The pushes of the two emitters the continuations hand the output to.    *)
(***************************************************************************)
\* of::OfEmitter(v): next(v), then complete().
OfEmitter_emit(v) == <<Next_(v), Complete_>>

\* of::ResultEmitter(r): Ok(v) is next(v) then complete(); Err(e) is error(e).
ResultEmitter_emit(r) ==
  IF r.shape = "Ok" THEN <<Next_(Plain(r.n)), Complete_>>
  ELSE <<Error_(Plain(r.n))>>

\* v.into(): the output converted to Result<Item, Err>.  The outputs modelled are
\* Results already (as future::ok(1) in the test), which convert arm by arm.
Into(v) ==
  CASE v.shape = "Ok" -> Ok(v.n)
    [] v.shape = "Err" -> Err(v.n)

\* Mutant: the closure pushes the value and forgets complete().
FutureEmitter_fmapped_nocomplete(v) == <<Next_(v)>>

\* Mutant: the closure dispatches a Result-shaped output as from_future_result does.
FutureEmitter_fmapped_dispatch(v) ==
  IF v.shape \in {"Ok", "Err"} THEN ResultEmitter_emit(v) ELSE OfEmitter_emit(v)

\* FutureEmitter::emit, the closure of map: the output goes to OfEmitter as it is.
FutureEmitter_fmapped(v) == OfEmitter_emit(v)

\* Mutant: the closure hands the output to OfEmitter, as from_future does.
FutureResultEmitter_fmapped_asvalue(v) == OfEmitter_emit(v)

\* Mutant: the arms of the conversion are swapped.
FutureResultEmitter_fmapped_swapped(v) ==
  ResultEmitter_emit(IF v.shape = "Ok" THEN Err(v.n) ELSE Ok(v.n))

\* Mutant: complete() follows the error of a failed outcome.
FutureResultEmitter_fmapped_errcomplete(v) ==
  IF v.shape = "Err" THEN <<Error_(Plain(v.n)), Complete_>> ELSE ResultEmitter_emit(Into(v))

\* FutureResultEmitter::emit, the closure of map: the output is converted, then
\* handed to ResultEmitter.
FutureResultEmitter_fmapped(v) == ResultEmitter_emit(Into(v))

\* Mutant: the continuation runs the emitter twice.
fmapped_twice(b) ==
  IF kind[b] = "Value"
  THEN FutureEmitter_fmapped(output[b]) \o FutureEmitter_fmapped(output[b])
  ELSE FutureResultEmitter_fmapped(output[b]) \o FutureResultEmitter_fmapped(output[b])

\* Mutant: the continuation of bridge b pushes the output of the next bridge.
fmapped_other(b) ==
  <<Next_(output[(b % NumBridges) + 1]), Complete_>>

fmapped(b) ==
  IF kind[b] = "Value" THEN FutureEmitter_fmapped(output[b])
  ELSE FutureResultEmitter_fmapped(output[b])

(***************************************************************************)
(* Init: from_future(f) / from_future_result(f) have built the bridges;    *)
(* nothing is subscribed, the pool does not exist yet.                     *)
(***************************************************************************)
Init ==
  /\ kind \in [Bridges -> {"Value", "Result"}]
  /\ output \in [Bridges -> UNION {ValueOutputs(b) : b \in Bridges}]
  /\ \A b \in Bridges :
       output[b] \in (IF kind[b] = "Value" THEN ValueOutputs(b) ELSE ResultOutputs(b))
  /\ fut \in [Bridges -> {"ready", "pending"}]
  /\ pc = [b \in Bridges |-> "new"]
  /\ panicked = [b \in Bridges |-> "no"]
  /\ once = "INCOMPLETE"
  /\ mutex = [holder |-> NoBridge, poisoned |-> FALSE]
  /\ task = [b \in Bridges |-> "none"]
  /\ worker = [w \in Workers |-> Idle]
  /\ hist = [b \in Bridges |-> <<>>]

(***************************************************************************)
(* emit, on the subscribing thread.                                        *)
(***************************************************************************)
\* Mutant: emit polls a ready future itself and pushes its first notification on
\* the subscribing thread before handing the work to the pool.
EmitCall_eager(b) ==
  /\ pc[b] = "new"
  /\ pc' = [pc EXCEPT ![b] = "deref"]
  /\ hist' = [hist EXCEPT ![b] = IF fut[b] = "ready" THEN Append(@, Head(fmapped(b))) ELSE @]
  /\ UNCHANGED <<kind, output, fut, panicked, once, mutex, task, worker>>

\* emit is called: fmapped is built from the future and the subscriber.
EmitCall(b) ==
  /\ pc[b] = "new"
  /\ pc' = [pc EXCEPT ![b] = "deref"]
  /\ UNCHANGED <<kind, output, fut, panicked, once, mutex, task, worker, hist>>

\* Mutant: the cell is tested and initialised without the Once, so a thread that
\* finds it empty runs the initializer even while another thread is running it.
Deref_race(b) ==
  /\ pc[b] = "deref"
  /\ \/ /\ once \in {"INCOMPLETE", "RUNNING"}
        /\ once' = "RUNNING"
        /\ pc' = [pc EXCEPT ![b] = "construct"]
        /\ UNCHANGED panicked
     \/ /\ once = "COMPLETE"
        /\ pc' = [pc EXCEPT ![b] = "lock"]
        /\ UNCHANGED <<once, panicked>>
     \/ /\ once = "POISONED"
        /\ pc' = [pc EXCEPT ![b] = "panicked"]
        /\ panicked' = [panicked EXCEPT ![b] = "Once"]
        /\ UNCHANGED once
  /\ UNCHANGED <<kind, output, fut, mutex, task, worker, hist>>

\* DEFAULT_RUNTIME is dereferenced.  The first thread runs the initializer; a
\* thread that finds it running waits; one that finds it poisoned panics.
Deref(b) ==
  /\ pc[b] = "deref"
  /\ \/ /\ once = "INCOMPLETE"
        /\ once' = "RUNNING"
        /\ pc' = [pc EXCEPT ![b] = "construct"]
        /\ UNCHANGED panicked
     \/ /\ once = "COMPLETE"
        /\ pc' = [pc EXCEPT ![b] = "lock"]
        /\ UNCHANGED <<once, panicked>>
     \/ /\ once = "POISONED"
        /\ pc' = [pc EXCEPT ![b] = "panicked"]
        /\ panicked' = [panicked EXCEPT ![b] = "Once"]
        /\ UNCHANGED once
  /\ UNCHANGED <<kind, output, fut, mutex, task, worker, hist>>

\* Mutant: a failed construction leaves the cell empty, so a later emit builds the
\* pool again.
Construct_retry(b) ==
  /\ pc[b] = "construct"
  /\ \/ /\ once' = "COMPLETE"
        /\ pc' = [pc EXCEPT ![b] = "lock"]
        /\ UNCHANGED panicked
     \/ /\ once' = "INCOMPLETE"
        /\ pc' = [pc EXCEPT ![b] = "panicked"]
        /\ panicked' = [panicked EXCEPT ![b] = "ThreadPool::new"]
  /\ UNCHANGED <<kind, output, fut, mutex, task, worker, hist>>

\* Mutex::new(ThreadPool::new().unwrap()): the pool is built, or building it fails
\* and unwrap panics inside the initializer, which poisons the cell.
Construct(b) ==
  /\ pc[b] = "construct"
  /\ \/ /\ once' = "COMPLETE"
        /\ pc' = [pc EXCEPT ![b] = "lock"]
        /\ UNCHANGED panicked
     \/ /\ once' = "POISONED"
        /\ pc' = [pc EXCEPT ![b] = "panicked"]
        /\ panicked' = [panicked EXCEPT ![b] = "ThreadPool::new"]
  /\ UNCHANGED <<kind, output, fut, mutex, task, worker, hist>>

\* Mutant: the pool is reached without waiting for the mutex to be free.
Lock_nowait(b) ==
  /\ pc[b] = "lock"
  /\ \/ /\ ~mutex.poisoned
        /\ mutex' = [mutex EXCEPT !.holder = b]
        /\ pc' = [pc EXCEPT ![b] = "spawn"]
        /\ UNCHANGED panicked
     \/ /\ mutex.poisoned
        /\ pc' = [pc EXCEPT ![b] = "panicked"]
        /\ panicked' = [panicked EXCEPT ![b] = "PoisonError"]
        /\ UNCHANGED mutex
  /\ UNCHANGED <<kind, output, fut, once, task, worker, hist>>

\* .lock().unwrap(): waits for the mutex; a poisoned mutex gives Err and unwrap
\* panics, dropping the guard the error carries.
Lock(b) ==
  /\ pc[b] = "lock"
  /\ mutex.holder = NoBridge
  /\ \/ /\ ~mutex.poisoned
        /\ mutex' = [mutex EXCEPT !.holder = b]
        /\ pc' = [pc EXCEPT ![b] = "spawn"]
        /\ UNCHANGED panicked
     \/ /\ mutex.poisoned
        /\ pc' = [pc EXCEPT ![b] = "panicked"]
        /\ panicked' = [panicked EXCEPT ![b] = "PoisonError"]
        /\ UNCHANGED mutex
  /\ UNCHANGED <<kind, output, fut, once, task, worker, hist>>

\* Mutant: a spawn that reports Err has queued the task all the same.
Spawn_errQueued(b) ==
  /\ pc[b] = "spawn"
  /\ \/ /\ task' = [task EXCEPT ![b] = "queued"]
        /\ pc' = [pc EXCEPT ![b] = "unlock"]
        /\ UNCHANGED <<panicked, mutex>>
     \/ /\ task' = [task EXCEPT ![b] = "queued"]
        /\ pc' = [pc EXCEPT ![b] = "panicked"]
        /\ panicked' = [panicked EXCEPT ![b] = "SpawnError"]
        /\ mutex' = [holder |-> NoBridge, poisoned |-> TRUE]
  /\ UNCHANGED <<kind, output, fut, once, worker, hist>>

\* Mutant: the result of spawn is Ok although fmapped was dropped, not queued.
Spawn_okDropped(b) ==
  /\ pc[b] = "spawn"
  /\ \/ /\ task' = [task EXCEPT ![b] = "dropped"]
        /\ pc' = [pc EXCEPT ![b] = "unlock"]
        /\ UNCHANGED <<panicked, mutex>>
     \/ /\ task' = [task EXCEPT ![b] = "dropped"]
        /\ pc' = [pc EXCEPT ![b] = "panicked"]
        /\ panicked' = [panicked EXCEPT ![b] = "SpawnError"]
        /\ mutex' = [holder |-> NoBridge, poisoned |-> TRUE]
  /\ UNCHANGED <<kind, output, fut, once, worker, hist>>

\* Mutant: the guard is dropped before the result of spawn is unwrapped, so a
\* failed spawn panics without poisoning the mutex.
Spawn_noPoison(b) ==
  /\ pc[b] = "spawn"
  /\ \/ /\ task' = [task EXCEPT ![b] = "queued"]
        /\ pc' = [pc EXCEPT ![b] = "unlock"]
        /\ UNCHANGED <<panicked, mutex>>
     \/ /\ task' = [task EXCEPT ![b] = "dropped"]
        /\ pc' = [pc EXCEPT ![b] = "panicked"]
        /\ panicked' = [panicked EXCEPT ![b] = "SpawnError"]
        /\ mutex' = [holder |-> NoBridge, poisoned |-> FALSE]
  /\ UNCHANGED <<kind, output, fut, once, worker, hist>>

\* .spawn(fmapped).unwrap(): Ok queues the task (this step is the hand-off to the
\* pool); Err drops fmapped and unwrap panics while the guard is alive, which
\* poisons the mutex as it unlocks.
Spawn(b) ==
  /\ pc[b] = "spawn"
  /\ \/ /\ task' = [task EXCEPT ![b] = "queued"]
        /\ pc' = [pc EXCEPT ![b] = "unlock"]
        /\ UNCHANGED <<panicked, mutex>>
     \/ /\ task' = [task EXCEPT ![b] = "dropped"]
        /\ pc' = [pc EXCEPT ![b] = "panicked"]
        /\ panicked' = [panicked EXCEPT ![b] = "SpawnError"]
        /\ mutex' = [holder |-> NoBridge, poisoned |-> TRUE]
  /\ UNCHANGED <<kind, output, fut, once, worker, hist>>

\* Mutant: before it returns, emit runs a still-queued ready fmapped itself, on
\* the subscribing thread.
Return_inline(b) ==
  /\ pc[b] = "unlock"
  /\ mutex' = [mutex EXCEPT !.holder = NoBridge]
  /\ pc' = [pc EXCEPT ![b] = "returned"]
  /\ IF task[b] = "queued" /\ fut[b] = "ready"
     THEN /\ hist' = [hist EXCEPT ![b] = @ \o fmapped(b)]
          /\ task' = [task EXCEPT ![b] = "done"]
     ELSE UNCHANGED <<hist, task>>
  /\ UNCHANGED <<kind, output, fut, panicked, once, worker>>

\* Mutant: emit returns with the guard leaked, the mutex still locked.
Return_keep(b) ==
  /\ pc[b] = "unlock"
  /\ pc' = [pc EXCEPT ![b] = "returned"]
  /\ UNCHANGED <<kind, output, fut, panicked, once, mutex, task, worker, hist>>

\* Mutant: emit waits until the spawned work has run to its end before it returns.
Return_wait(b) ==
  /\ pc[b] = "unlock"
  /\ task[b] = "done"
  /\ mutex' = [mutex EXCEPT !.holder = NoBridge]
  /\ pc' = [pc EXCEPT ![b] = "returned"]
  /\ UNCHANGED <<kind, output, fut, panicked, once, task, worker, hist>>

\* The end of the statement drops the guard; emit returns.
Return(b) ==
  /\ pc[b] = "unlock"
  /\ mutex' = [mutex EXCEPT !.holder = NoBridge]
  /\ pc' = [pc EXCEPT ![b] = "returned"]
  /\ UNCHANGED <<kind, output, fut, panicked, once, task, worker, hist>>

(***************************************************************************)
(* The wrapped future and the pool's worker threads.                       *)
(***************************************************************************)
\* The wrapped future becomes ready; a task parked on it is woken and queued again.
Resolve(b) ==
  /\ fut[b] = "pending"
  /\ fut' = [fut EXCEPT ![b] = "ready"]
  /\ task' = [task EXCEPT ![b] = IF task[b] = "parked" THEN "queued" ELSE task[b]]
  /\ UNCHANGED <<kind, output, pc, panicked, once, mutex, worker, hist>>

\* An idle worker takes a queued task.  Idle workers are interchangeable (they
\* wait on one shared queue), so the lowest-numbered idle worker is the one that
\* takes it.
WorkerTake(w, b) ==
  /\ worker[w].st = "idle"
  /\ \A w2 \in Workers : w2 < w => worker[w2].st # "idle"
  /\ task[b] = "queued"
  /\ task' = [task EXCEPT ![b] = "running"]
  /\ worker' = [worker EXCEPT ![w] = [b |-> b, st |-> "poll", plan |-> <<>>]]
  /\ UNCHANGED <<kind, output, fut, pc, panicked, once, mutex, hist>>

\* The worker polls fmapped: a pending future parks the task; a ready one hands
\* its output to the closure of map.
WorkerPoll(w) ==
  /\ worker[w].st = "poll"
  /\ LET b == worker[w].b IN
       IF fut[b] = "pending"
       THEN /\ task' = [task EXCEPT ![b] = "parked"]
            /\ worker' = [worker EXCEPT ![w] = Idle]
       ELSE /\ worker' = [worker EXCEPT ![w] = [b |-> b, st |-> "push", plan |-> fmapped(b)]]
            /\ UNCHANGED task
  /\ UNCHANGED <<kind, output, fut, pc, panicked, once, mutex, hist>>

\* The closure pushes its next notification into the subscriber.
WorkerPush(w) ==
  /\ worker[w].st = "push"
  /\ worker[w].plan # <<>>
  /\ hist' = [hist EXCEPT ![worker[w].b] = Append(@, Head(worker[w].plan))]
  /\ worker' = [worker EXCEPT ![w].plan = Tail(@)]
  /\ UNCHANGED <<kind, output, fut, pc, panicked, once, mutex, task>>

\* Mutant: the finished task is put back on the queue and runs again.
WorkerDone_requeue(w) ==
  /\ worker[w].st = "push"
  /\ worker[w].plan = <<>>
  /\ task' = [task EXCEPT ![worker[w].b] = "queued"]
  /\ worker' = [worker EXCEPT ![w] = Idle]
  /\ UNCHANGED <<kind, output, fut, pc, panicked, once, mutex, hist>>

\* The closure has returned: fmapped is complete and the task is finished.
WorkerDone(w) ==
  /\ worker[w].st = "push"
  /\ worker[w].plan = <<>>
  /\ task' = [task EXCEPT ![worker[w].b] = "done"]
  /\ worker' = [worker EXCEPT ![w] = Idle]
  /\ UNCHANGED <<kind, output, fut, pc, panicked, once, mutex, hist>>

WorkerNext ==
  \/ \E w \in Workers, b \in Bridges : WorkerTake(w, b)
  \/ \E w \in Workers : WorkerPoll(w)
  \/ \E w \in Workers : WorkerPush(w)
  \/ \E w \in Workers : WorkerDone(w)

Next ==
  \/ \E b \in Bridges : EmitCall(b)
  \/ \E b \in Bridges : Deref(b)
  \/ \E b \in Bridges : Construct(b)
  \/ \E b \in Bridges : Lock(b)
  \/ \E b \in Bridges : Spawn(b)
  \/ \E b \in Bridges : Return(b)
  \/ \E b \in Bridges : Resolve(b)
  \/ WorkerNext

Spec == Init /\ [][Next]_vars

\* The pool's workers keep running whatever they can run.
FairSpec == Spec /\ WF_vars(WorkerNext)

\* The steps of an emit call that has begun.
EmitStep(b) == Deref(b) \/ Construct(b) \/ Lock(b) \/ Spawn(b) \/ Return(b)

\* The workers keep running, and a thread that is inside emit keeps running too.
\* Nothing makes a bridge be subscribed or a pending future resolve.
FairEmitSpec ==
  Spec /\ WF_vars(WorkerNext) /\ \A b \in Bridges : WF_vars(EmitStep(b))

TypeOK ==
  /\ kind \in [Bridges -> {"Value", "Result"}]
  /\ \A b \in Bridges : output[b] \in ValueOutputs(b)
  /\ fut \in [Bridges -> {"ready", "pending"}]
  /\ pc \in [Bridges -> {"new", "deref", "construct", "lock", "spawn", "unlock", "returned", "panicked"}]
  /\ panicked \in [Bridges -> {"no", "Once", "ThreadPool::new", "PoisonError", "SpawnError"}]
  /\ once \in {"INCOMPLETE", "RUNNING", "COMPLETE", "POISONED"}
  /\ mutex.holder \in Bridges \cup {NoBridge}
  /\ mutex.poisoned \in BOOLEAN
  /\ task \in [Bridges -> {"none", "queued", "running", "parked", "done", "dropped"}]
  /\ \A w \in Workers : worker[w].st \in {"idle", "poll", "push"}
  /\ \A b \in Bridges : Len(hist[b]) <= 2

(***************************************************************************)
(* Properties.                                                             *)
(***************************************************************************)
Count(h, k) == Cardinality({i \in 1..Len(h) : h[i].kind = k})

IsPrefix(h, full) ==
  /\ Len(h) <= Len(full)
  /\ \A i \in 1..Len(h) : h[i] = full[i]

\* The continuation of b has run to its end.
Delivered(b) == task[b] = "done"

\* C1: a Value Bridge whose future resolves to V gives its subscriber exactly
\* next(V) then complete(): the history is always a prefix of that pair, and is
\* the whole pair once the continuation has run.
C1_ValueBridgeNextComplete ==
  \A b \in Bridges : kind[b] = "Value" =>
    LET full == <<[kind |-> "next", val |-> output[b]], [kind |-> "complete", val |-> Unit]>> IN
      /\ IsPrefix(hist[b], full)
      /\ Delivered(b) => hist[b] = full

C1_Witness ==
  \E b \in Bridges :
    /\ kind[b] = "Value" /\ output[b].shape = "Plain"
    /\ pc[b] = "returned" /\ Delivered(b) /\ Len(hist[b]) = 2

\* C2: a Result Bridge whose output converts to Ok(V) gives its subscriber
\* exactly next(V) then complete(), and never an error.
C2_ResultBridgeSuccess ==
  \A b \in Bridges : (kind[b] = "Result" /\ output[b].shape = "Ok") =>
    LET full == <<[kind |-> "next", val |-> Plain(output[b].n)],
                  [kind |-> "complete", val |-> Unit]>> IN
      /\ IsPrefix(hist[b], full)
      /\ Delivered(b) => hist[b] = full
      /\ Count(hist[b], "error") = 0

C2_Witness ==
  \E b \in Bridges :
    /\ kind[b] = "Result" /\ output[b].shape = "Ok"
    /\ pc[b] = "returned" /\ Delivered(b) /\ Len(hist[b]) = 2

\* C3: a Result Bridge whose output converts to Err(E) gives its subscriber
\* exactly error(E), with the same E, and neither a next nor a complete.
C3_ResultBridgeFailure ==
  \A b \in Bridges : (kind[b] = "Result" /\ output[b].shape = "Err") =>
    LET full == <<[kind |-> "error", val |-> Plain(output[b].n)]>> IN
      /\ IsPrefix(hist[b], full)
      /\ Delivered(b) => hist[b] = full
      /\ Count(hist[b], "next") = 0
      /\ Count(hist[b], "complete") = 0

C3_Witness ==
  \E b \in Bridges :
    /\ kind[b] = "Result" /\ output[b].shape = "Err"
    /\ pc[b] = "returned" /\ Delivered(b) /\ Len(hist[b]) = 1

\* C4: the subscriber of a Value Bridge never holds an error notification,
\* whatever the output's shape; an output that is a Result::Err arrives as
\* next(Err(..)) followed by complete().
C4_ValueBridgeNeverErrors ==
  \A b \in Bridges : kind[b] = "Value" =>
    /\ \A i \in 1..Len(hist[b]) : hist[b][i].kind # "error"
    /\ (output[b].shape = "Err" /\ Delivered(b)) =>
         /\ Len(hist[b]) = 2
         /\ hist[b][1].kind = "next" /\ hist[b][1].val = Err(b)
         /\ hist[b][2].kind = "complete"

C4_Witness ==
  \E b \in Bridges :
    /\ kind[b] = "Value" /\ output[b].shape = "Err"
    /\ Delivered(b) /\ Len(hist[b]) = 2 /\ hist[b][1].val.shape = "Err"

\* C5 as stated: no notification reaches the subscriber before emit has returned
\* on the subscribing thread.
C5_NoNotificationBeforeReturn ==
  \A b \in Bridges : hist[b] # <<>> => pc[b] = "returned"

\* C5, amended: no notification reaches the subscriber before the spawn inside
\* emit has queued the work in the pool; from then on a worker may deliver, also
\* before emit itself has returned.
C5_NoNotificationBeforeSpawn ==
  \A b \in Bridges : hist[b] # <<>> => pc[b] \in {"unlock", "returned"}

C5_Witness ==
  \E b \in Bridges : hist[b] # <<>> /\ pc[b] = "unlock" /\ mutex.holder = b

\* C6: per bridge the subscriber gets at most one next-or-error and at most one
\* complete, and nothing follows a complete.
C6_AtMostOnce ==
  \A b \in Bridges :
    /\ Count(hist[b], "next") + Count(hist[b], "error") <= 1
    /\ Count(hist[b], "complete") <= 1
    /\ \A i \in 1..Len(hist[b]) : hist[b][i].kind = "complete" => i = Len(hist[b])

C6_Witness ==
  /\ \A b \in Bridges : Delivered(b) /\ hist[b] # <<>>
  /\ \A w \in Workers : worker[w].st = "idle"
  /\ \E b \in Bridges : Count(hist[b], "complete") = 1

\* C7: the subscriber of a Result Bridge never holds an error together with a
\* next or a complete; once the continuation has run it holds exactly one
\* terminal notification, a complete that follows a next or else an error.
C7_ResultBranchExclusive ==
  \A b \in Bridges : kind[b] = "Result" =>
    /\ ~(Count(hist[b], "error") > 0
          /\ Count(hist[b], "next") + Count(hist[b], "complete") > 0)
    /\ Delivered(b) =>
         /\ Count(hist[b], "error") + Count(hist[b], "complete") = 1
         /\ hist[b][Len(hist[b])].kind \in {"error", "complete"}
         /\ hist[b][Len(hist[b])].kind = "complete" =>
              (Len(hist[b]) = 2 /\ hist[b][1].kind = "next")

C7_Witness ==
  \E b1, b2 \in Bridges :
    /\ kind[b1] = "Result" /\ Delivered(b1) /\ Count(hist[b1], "error") = 1
    /\ kind[b2] = "Result" /\ Delivered(b2) /\ Count(hist[b2], "complete") = 1

\* C8: an emit whose spawn reported failure has aborted, its work is in no
\* queue and on no worker, and its subscriber holds no notification at all.
C8_SpawnFailureDeliversNothing ==
  \A b \in Bridges : panicked[b] = "SpawnError" =>
    /\ pc[b] = "panicked"
    /\ task[b] = "dropped"
    /\ \A w \in Workers : worker[w].b # b
    /\ hist[b] = <<>>

C8_Witness ==
  \E b1, b2 \in Bridges :
    /\ panicked[b1] = "SpawnError" /\ hist[b1] = <<>>
    /\ b2 # b1 /\ Delivered(b2) /\ pc[b2] = "returned"
    /\ \A w \in Workers : worker[w].st = "idle"

\* C9: once the construction of the pool has failed, the emit that ran it has
\* aborted, the pool stays unusable, no bridge has submitted work or received a
\* notification, and no emit gets past the pool access: it can only abort there.
C9_ConstructionFailureIsFatal ==
  (\E b \in Bridges : panicked[b] = "ThreadPool::new") =>
    /\ once = "POISONED"
    /\ \A b \in Bridges :
         /\ task[b] = "none"
         /\ hist[b] = <<>>
         /\ pc[b] \in {"new", "deref", "panicked"}
         /\ panicked[b] \in {"no", "ThreadPool::new", "Once"}

C9_Witness ==
  \E b1, b2 \in Bridges :
    /\ panicked[b1] = "ThreadPool::new"
    /\ panicked[b2] = "Once" /\ pc[b2] = "panicked"

\* The terminal notification of bridge b has arrived: error for a Result Bridge
\* whose output is Err, else complete after next.
TerminalDelivered(b) ==
  /\ hist[b] # <<>>
  /\ IF kind[b] = "Result" /\ output[b].shape = "Err"
     THEN hist[b][Len(hist[b])].kind = "error"
     ELSE /\ Len(hist[b]) = 2
          /\ hist[b][1].kind = "next"
          /\ hist[b][2].kind = "complete"

InPool(b) == task[b] \in {"queued", "running", "parked", "done"}

\* C10: under fair scheduling of the workers, a bridge whose emit has got Ok from
\* spawn and whose future is ready eventually has its terminal notification
\* delivered; and no step takes submitted work out of the pool.
C10_EventualDelivery ==
  /\ \A b \in Bridges :
       (pc[b] \in {"unlock", "returned"} /\ fut[b] = "ready") ~> TerminalDelivered(b)
  /\ [][\A b \in Bridges : InPool(b) => InPool(b)']_vars

C10_Witness ==
  \A b \in Bridges : pc[b] = "returned" /\ fut[b] = "ready" /\ TerminalDelivered(b)

\* C11: every step that adds a notification to a subscriber is a step of a pool
\* worker running that bridge's task, taken after the emit has handed the work
\* to the pool; a step of the subscribing thread inside emit never polls the
\* future (no worker state changes) and never pushes (no history changes).
C11_DeliveryOnlyByWorker ==
  [][\A b \in Bridges :
       /\ hist'[b] # hist[b] =>
            /\ pc[b] \in {"unlock", "returned"}
            /\ pc'[b] = pc[b]
            /\ task[b] = "running"
            /\ \E w \in Workers :
                 worker[w].b = b /\ worker[w].st = "push" /\ worker'[w] # worker[w]
       /\ pc'[b] # pc[b] => (hist' = hist /\ worker' = worker /\ fut' = fut)
    ]_vars

C11_Witness ==
  \E b \in Bridges, w \in Workers :
    /\ worker[w].b = b /\ worker[w].st = "push" /\ worker[w].plan = <<>>
    /\ hist[b] # <<>> /\ pc[b] \in {"unlock", "returned"}

\* C12: the mutex is held by the thread of bridge b exactly while that thread is
\* between its lock() and the end of the spawn statement of emit: not before, not
\* once emit has returned or panicked.  A worker never holds it: when the mutex
\* is held for the bridge a worker is running, the holder is the emitting thread,
\* still at the end of its spawn statement.
C12_LockScope ==
  /\ mutex.holder \in Bridges \cup {NoBridge}
  /\ \A b \in Bridges : mutex.holder = b <=> pc[b] \in {"spawn", "unlock"}
  /\ \A w \in Workers :
       (worker[w].st # "idle" /\ mutex.holder = worker[w].b) => pc[worker[w].b] = "unlock"

C12_Witness ==
  \E b1, b2 \in Bridges, w \in Workers :
    /\ b1 # b2
    /\ mutex.holder = b1 /\ pc[b1] = "spawn"
    /\ worker[w].b = b2 /\ worker[w].st = "push" /\ hist[b2] # <<>>
    /\ pc[b2] = "returned"

\* The threads that are inside the pool's spawn call, or have left it and not
\* yet dropped the guard.
InSubmit == {b \in Bridges : pc[b] \in {"spawn", "unlock"}}

\* The workers that are polling a wrapped future or running its continuation.
Executing == {w \in Workers : worker[w].st \in {"poll", "push"}}

\* C13: at most one thread is inside the submit section at any time, also while
\* another thread waits at lock(); the workers that execute at the same time
\* run different bridges, and nothing limits them to one (the witness has two).
C13_SubmitSerializedExecutionParallel ==
  /\ Cardinality(InSubmit) <= 1
  /\ \A b \in Bridges : (pc[b] = "lock" /\ InSubmit # {}) => mutex.holder \in InSubmit
  /\ \A w1, w2 \in Executing : w1 # w2 => worker[w1].b # worker[w2].b

C13_Witness ==
  \E w1, w2 \in Workers :
    /\ w1 # w2
    /\ worker[w1].st = "push" /\ worker[w1].plan # <<>>
    /\ worker[w2].st = "push" /\ worker[w2].plan # <<>>
    /\ worker[w1].b # worker[w2].b
    /\ mutex.holder = NoBridge

\* Two emits contend: one is inside spawn while the other waits at lock().
C13_Contention ==
  \E b1, b2 \in Bridges : pc[b1] = "spawn" /\ pc[b2] = "lock"

\* The threads that are running the initializer of DEFAULT_RUNTIME.
Constructing == {b \in Bridges : pc[b] = "construct"}

\* C14: the pool is not built while no emit has reached it; at most one thread
\* runs its initializer, also when two first emits race; the built pool is never
\* built again or replaced; and every emit of either kind that locks, spawns or
\* has work in the pool uses that one built pool.
C14_LazySingletonPool ==
  /\ [](/\ (\A b \in Bridges : pc[b] = "new") => once = "INCOMPLETE"
        /\ Cardinality(Constructing) <= 1
        /\ once = "RUNNING" <=> Constructing # {}
        /\ \A b \in Bridges :
             (pc[b] \in {"lock", "spawn", "unlock", "returned"} \/ task[b] # "none")
               => once = "COMPLETE")
  /\ [][/\ once \in {"COMPLETE", "POISONED"} => once' = once
        /\ (once' = "COMPLETE" /\ once # "COMPLETE") =>
             (once = "RUNNING" /\ \E b \in Constructing : pc'[b] = "lock")
        /\ (once' = "RUNNING" /\ once # "RUNNING") =>
             (once = "INCOMPLETE" /\ \E b \in Bridges : pc[b] = "deref" /\ pc'[b] = "construct")
       ]_vars

C14_Witness ==
  \E b1, b2 \in Bridges :
    /\ kind[b1] = "Value" /\ kind[b2] = "Result"
    /\ once = "RUNNING" /\ pc[b1] = "construct" /\ pc[b2] = "deref"

\* Bridges of both kinds have work in the one pool.
C14_BothKindsInPool ==
  \E b1, b2 \in Bridges :
    /\ kind[b1] = "Value" /\ kind[b2] = "Result"
    /\ task[b1] = "queued" /\ task[b2] = "queued" /\ once = "COMPLETE"

InsideEmit(b) == pc[b] \in {"deref", "construct", "lock", "spawn", "unlock"}

\* C15: an emit that has begun always comes to its end (it returns, or aborts by
\* a panic), whether or not the wrapped future ever resolves; as long as a
\* bridge's future is pending its subscriber holds nothing; and a bridge with a
\* ready future whose emit begins after the emit of a bridge with a still
\* pending future has returned gets its terminal notification, unless its own
\* emit aborts.
C15_NonBlockingSubscription ==
  /\ \A b \in Bridges : InsideEmit(b) ~> (pc[b] \in {"returned", "panicked"})
  /\ [](\A b \in Bridges : fut[b] = "pending" => hist[b] = <<>>)
  /\ \A b1, b2 \in Bridges :
       (/\ b1 # b2
        /\ fut[b1] = "pending" /\ pc[b1] = "returned"
        /\ fut[b2] = "ready" /\ pc[b2] = "deref")
         ~> (pc[b2] = "panicked" \/ TerminalDelivered(b2))

C15_Witness ==
  \E b1, b2 \in Bridges :
    /\ b1 # b2
    /\ fut[b1] = "pending" /\ pc[b1] = "returned" /\ task[b1] = "parked" /\ hist[b1] = <<>>
    /\ pc[b2] = "returned" /\ task[b2] = "done" /\ TerminalDelivered(b2)
    /\ mutex.holder = NoBridge

\* C16: whatever the interleaving of two bridges on the pool, every value or
\* error in a subscriber's history is the one its own bridge's future produced
\* (bridge b's future carries b), and the history keeps its own order: a next
\* only first, an error only alone, a complete only after a next.  No order
\* between the bridges is kept: in the witness the bridge that a worker began
\* first has delivered nothing while the other has delivered everything.
C16_BridgesIndependent ==
  \A b \in Bridges : \A i \in 1..Len(hist[b]) :
    /\ hist[b][i].kind \in {"next", "error"} =>
         (hist[b][i].val.n = b /\ hist[b][i].val.n = output[b].n)
    /\ hist[b][i].kind = "next" => i = 1
    /\ hist[b][i].kind = "error" => Len(hist[b]) = 1
    /\ hist[b][i].kind = "complete" => (i = 2 /\ hist[b][1].kind = "next")

\* The lowest idle worker takes a task, so worker 1 was busy with bridge 1 when
\* worker 2 took bridge 2: bridge 1 began first and bridge 2 finished first.
C16_Witness ==
  /\ worker[1].b = 1 /\ worker[1].st = "push" /\ hist[1] = <<>>
  /\ task[2] = "done" /\ hist[2] # <<>>
  /\ pc[1] = "returned" /\ pc[2] = "returned"

\* The other order: bridge 1 has delivered everything, bridge 2 nothing yet.
C16_OtherOrder ==
  /\ task[1] = "done" /\ hist[1] # <<>>
  /\ task[2] = "running" /\ hist[2] = <<>>
  /\ pc[1] = "returned" /\ pc[2] = "returned"

\* The workers that hold the task of bridge b.
RunningOn(b) == {w \in Workers : worker[w].b = b}

\* C17: an emit submits exactly once: nothing of bridge b is in the pool before
\* its spawn, its work is in the pool once the spawn has succeeded, work enters
\* the pool only in the spawn step of its own emit, and an emit that is past its
\* spawn never spawns again.  The submitted work runs at most once: it is on at
\* most one worker, its continuation has pushed nothing when a worker polls it,
\* and finished or dropped work stays so.
C17_OneSubmissionRunOnce ==
  /\ [](\A b \in Bridges :
          /\ pc[b] \in {"new", "deref", "construct", "lock", "spawn"} => task[b] = "none"
          /\ pc[b] \in {"unlock", "returned"} => InPool(b)
          /\ Cardinality(RunningOn(b)) <= 1
          /\ task[b] = "running" <=> RunningOn(b) # {}
          /\ \A w \in RunningOn(b) : worker[w].st = "poll" => hist[b] = <<>>)
  /\ [][\A b \in Bridges :
          /\ (task[b] = "none" /\ task'[b] # "none") =>
               (pc[b] = "spawn" /\ pc'[b] \in {"unlock", "panicked"})
          /\ pc[b] \in {"unlock", "returned", "panicked"} =>
               pc'[b] \in {"unlock", "returned", "panicked"}
          /\ pc[b] \in {"returned", "panicked"} => pc'[b] = pc[b]
          /\ task[b] \in {"done", "dropped"} => task'[b] = task[b]
       ]_vars

\* A worker is about to poll the submitted work of one bridge, whose
\* continuation has not run yet, while the other bridge's work has run to its end.
C17_Witness ==
  \E b1, b2 \in Bridges, w \in Workers :
    /\ b1 # b2
    /\ worker[w].b = b1 /\ worker[w].st = "poll" /\ fut[b1] = "ready"
    /\ pc[b1] = "returned" /\ hist[b1] = <<>>
    /\ task[b2] = "done" /\ Len(hist[b2]) = 2

\* C18: the mutex is poisoned exactly when some emit's spawn has failed (the
\* panic unwinds through the live guard).  From then on the mutex stays poisoned
\* and free, no emit is inside the submit section, an emit that reaches lock()
\* aborts there with nothing submitted and nothing delivered, and no work enters
\* the pool any more; work that is in the pool is still run: under fair
\* scheduling of the workers its terminal notification arrives once its future
\* is ready.
C18_PoisonedAfterFailedSpawn ==
  /\ [](/\ mutex.poisoned <=> (\E b \in Bridges : panicked[b] = "SpawnError")
        /\ mutex.poisoned =>
             (mutex.holder = NoBridge /\ \A b \in Bridges : pc[b] \notin {"spawn", "unlock"})
        /\ \A b \in Bridges : panicked[b] = "PoisonError" =>
             (mutex.poisoned /\ pc[b] = "panicked" /\ task[b] = "none" /\ hist[b] = <<>>))
  /\ [][mutex.poisoned =>
          /\ mutex'.poisoned
          /\ \A b \in Bridges : task[b] = "none" => task'[b] = "none"
          /\ \A b \in Bridges : pc[b] = "lock" => pc'[b] \in {"lock", "panicked"}
       ]_vars
  /\ \A b \in Bridges :
       (mutex.poisoned /\ InPool(b) /\ fut[b] = "ready") ~> TerminalDelivered(b)

C18_Witness ==
  \E b1, b2 \in Bridges :
    /\ panicked[b1] = "SpawnError" /\ task[b1] = "dropped"
    /\ panicked[b2] = "PoisonError" /\ pc[b2] = "panicked"
    /\ mutex.poisoned /\ mutex.holder = NoBridge

\* Work submitted before the failure is still waiting in the pool after it.
C18_EarlierWorkPending ==
  \E b1, b2 \in Bridges :
    /\ panicked[b1] = "SpawnError" /\ mutex.poisoned
    /\ pc[b2] = "returned" /\ task[b2] = "queued" /\ fut[b2] = "ready" /\ hist[b2] = <<>>

=============================================================================
